---- MODULE Spec2Model ----
(***************************************************************************)
(* Model of the server actions of src/actions/expense-actions.ts: the      *)
(* role-scoped expense, company-membership and invitation rules that run   *)
(* against the Firestore collections users, companies, invitations and     *)
(* expenses.                                                               *)
(*                                                                         *)
(* Every server action is one action of the model: it verifies the token,  *)
(* reads, decides and writes, and records the call and its result in       *)
(* `last`.  A write that throws in the middle of a handler leaves the      *)
(* writes made before it in place, as in the code.                         *)
(***************************************************************************)
EXTENDS Integers, Sequences, FiniteSets, TLC

\* ---------------------------------------------------------------- bounds
MaxCompanies == 2
MaxInvitations == 1
MaxExpenses == 1
\* number of server-action calls in a run of Spec and of SpecExpense
MaxCalls == 5
MaxExpenseCalls == 5
MaxAsyncCalls == 4
MaxAllCalls == 4
MaxRoleCalls == 5

\* ------------------------------------------------------------ identities
\* Firebase Auth users.  A uid doubles as the ID token that verifies to it.
UIDS == {1, 2, 3}
NoUser == 0
\* companyId null or undefined (both falsy, both unequal to every id)
NullCompany == 0
CIDS == 1..MaxCompanies
InvitationIds == 1..MaxInvitations
ExpenseIds == 1..MaxExpenses

\* an ID token: a uid (verifies), "" (MissingToken) or an expired one
MissingToken == 0
ExpiredToken == -1
Tokens == UIDS \cup {MissingToken, ExpiredToken}

UserRole == {"owner", "admin", "auditor", "user"}
NullRole == "null"
ExpenseStatus == {"pending", "approved", "rejected"}
NoStatus == "null"

\* e-mail addresses are strings of characters; the local part is one letter
EmailOf(uid) ==
  CASE uid = 1 -> <<"a", "@", "x">>
    [] uid = 2 -> <<"B", "@", "x">>
    [] uid = 3 -> <<"c", "@", "x">>
    [] OTHER -> <<>>

InviteeEmails == { <<"A", "@", "x">>, <<"b", "@", "x">>, <<"c", "@", "x">> }

LowerChar(ch) ==
  CASE ch = "A" -> "a"
    [] ch = "B" -> "b"
    [] ch = "C" -> "c"
    [] OTHER -> ch

\* String.prototype.toLowerCase
toLowerCase(s) == [i \in 1..Len(s) |-> LowerChar(s[i])]

\* ------------------------------------------------------ JavaScript values
\* A number is NaN or a decimal with one fractional digit, held as an integer
\* count of tenths.
Scale == 10
NaN == [nan |-> TRUE, v |-> 0]
Num(tenths) == [nan |-> FALSE, v |-> tenths]

\* item.quantity and item.netPrice are `number | string`, or absent
Undefined == [t |-> "undefined", n |-> NaN, s |-> <<>>]
JsNumber(n) == [t |-> "number", n |-> n, s |-> <<>>]
JsString(s) == [t |-> "string", n |-> NaN, s |-> s]

Digits == {"0", "1", "2", "3", "4", "5", "6", "7", "8", "9"}
DigitVal(ch) ==
  CASE ch = "0" -> 0 [] ch = "1" -> 1 [] ch = "2" -> 2 [] ch = "3" -> 3
    [] ch = "4" -> 4 [] ch = "5" -> 5 [] ch = "6" -> 6 [] ch = "7" -> 7
    [] ch = "8" -> 8 [] ch = "9" -> 9

RECURSIVE DigitsValue(_)
DigitsValue(ds) ==
  IF ds = <<>> THEN 0
  ELSE DigitsValue(SubSeq(ds, 1, Len(ds) - 1)) * 10 + DigitVal(ds[Len(ds)])

RECURSIVE Trim(_)
Trim(s) ==
  IF s = <<>> THEN s
  ELSE IF Head(s) = " " THEN Trim(Tail(s))
  ELSE IF s[Len(s)] = " " THEN Trim(SubSeq(s, 1, Len(s) - 1))
  ELSE s

\* an unsigned decimal literal: digits, optionally a point and digits, at
\* least one digit in all; the value is kept to the first fractional digit
UnsignedLiteral(s) ==
  LET dots == {i \in 1..Len(s) : s[i] = "."}
      dot == IF dots = {} THEN Len(s) + 1 ELSE CHOOSE i \in dots : TRUE
      int == SubSeq(s, 1, dot - 1)
      frac == SubSeq(s, dot + 1, Len(s))
      wellFormed ==
        /\ Cardinality(dots) <= 1
        /\ \A i \in 1..Len(int) : int[i] \in Digits
        /\ \A i \in 1..Len(frac) : frac[i] \in Digits
        /\ Len(int) + Len(frac) > 0
  IN IF wellFormed
     THEN Num(DigitsValue(int) * Scale + (IF frac = <<>> THEN 0 ELSE DigitVal(frac[1])))
     ELSE NaN

\* StringToNumber: white space is trimmed, the empty string is 0, a signed
\* decimal literal is its value and anything else is NaN
StringToNumber(str) ==
  LET s == Trim(str) IN
  IF s = <<>> THEN Num(0)
  ELSE IF Head(s) = "-"
       THEN LET u == UnsignedLiteral(Tail(s)) IN IF u.nan THEN NaN ELSE Num(0 - u.v)
  ELSE IF Head(s) = "+" THEN UnsignedLiteral(Tail(s))
  ELSE UnsignedLiteral(s)

\* Number(value)
Number(x) ==
  CASE x.t = "number" -> x.n
    [] x.t = "string" -> StringToNumber(x.s)
    [] x.t = "undefined" -> NaN

\* a || b on numbers: 0 and NaN are falsy
OrElse(a, b) == IF a.nan \/ a.v = 0 THEN b ELSE a

\* Math.max
MathMax(a, b) ==
  IF a.nan \/ b.nan THEN NaN ELSE IF a.v >= b.v THEN a ELSE b

\* a + b on numbers
Plus(a, b) == IF a.nan \/ b.nan THEN NaN ELSE Num(a.v + b.v)

\* the quantities and prices a form or the receipt extraction can carry
MaxItems == 2
RawQuantities ==
  { Undefined, JsNumber(Num(0)), JsNumber(Num(-30)), JsNumber(Num(15)),
    JsNumber(NaN), JsString(<<>>), JsString(<<"a", "b", "c">>),
    JsString(<<"0", ".", "5">>), JsString(<<" ", "3", " ">>) }
RawPrices ==
  { Undefined, JsNumber(Num(-25)), JsNumber(Num(125)),
    JsString(<<"a", "b", "c">>), JsString(<<"4", ".", "5">>),
    JsString(<<"-", "2">>) }
RawItems == [quantity : RawQuantities, netPrice : RawPrices]
RawItemLists == UNION { [1..n -> RawItems] : n \in 0..MaxItems }

\* ------------------------------------------------------------------ state
VARIABLES
  users,        \* users/{uid}: profile documents
  companies,    \* companies/{id}
  invitations,  \* invitations/{id}
  expenses,     \* expenses/{id}
  last,         \* the last server-action call and its result
  ncalls,       \* number of server-action calls made so far
  inflight      \* requests that have read and not yet written, per connection

vars == <<users, companies, invitations, expenses, last, ncalls, inflight>>
db == <<users, companies, invitations, expenses>>

NoProfile == [exists |-> FALSE, companyId |-> NullCompany, role |-> NullRole]
EmptyProfile == [exists |-> TRUE, companyId |-> NullCompany, role |-> NullRole]
NoCompany == [exists |-> FALSE, ownerId |-> NoUser, members |-> {}]
NoInvitation == [exists |-> FALSE, companyId |-> NullCompany, inviteeEmail |-> <<>>,
                 inviterId |-> NoUser, role |-> NullRole, status |-> NoStatus,
                 acceptedBy |-> NoUser]
NoExpense == [exists |-> FALSE, userId |-> NoUser, companyId |-> NullCompany,
              status |-> NoStatus, items |-> <<>>, totalAmount |-> Num(0)]

\* a call record: the operation, its arguments and its result
NoCall == [op |-> "none", tok |-> MissingToken, target |-> NoUser,
           companyId |-> NullCompany, role |-> NullRole, email |-> <<>>,
           invitationId |-> 0, expenseId |-> 0, status |-> NoStatus,
           dataCompanyId |-> NullCompany, success |-> FALSE, error |-> "",
           docId |-> 0, wrote |-> FALSE, result |-> {}, items |-> <<>>,
           aiCategory |-> "", aiPaymentMethod |-> "", aiItems |-> <<>>,
           category |-> "", paymentMethod |-> ""]

\* concurrent requests
Slots == {1, 2}
Idle == [op |-> "idle", call |-> NoCall, uid |-> NoUser, invitationId |-> 0,
         inv |-> NoInvitation]

\* a verification that takes an expired token of user 1 as good
verifyIdToken_AcceptExpired(tok) ==
  IF tok \in UIDS
  THEN [ok |-> TRUE, uid |-> tok, email |-> EmailOf(tok)]
  ELSE IF tok = ExpiredToken
  THEN [ok |-> TRUE, uid |-> 1, email |-> EmailOf(1)]
  ELSE [ok |-> FALSE, uid |-> NoUser, email |-> <<>>]

\* adminAuth.verifyIdToken: resolves to {uid, email} or throws
verifyIdToken(tok) ==
  IF tok \in UIDS
  THEN [ok |-> TRUE, uid |-> tok, email |-> EmailOf(tok)]
  ELSE [ok |-> FALSE, uid |-> NoUser, email |-> <<>>]

\* collection.add(): the new document gets an unused id
FreeIds(coll, ids) == {i \in ids : ~coll[i].exists}
NewId(coll, ids) == CHOOSE i \in FreeIds(coll, ids) : \A j \in FreeIds(coll, ids) : i <= j

\* `snapshot.exists()` on a firebase-admin DocumentSnapshot: `exists` is a
\* boolean property there, so the call throws a TypeError
ExistsCallThrows == TRUE

Fail(call, err) ==
  /\ last' = [call EXCEPT !.success = FALSE, !.error = err]
  /\ UNCHANGED db

\* Users 1 and 2 have a profile document and no company; user 3 has signed up
\* but has no profile document yet (nothing creates one before the user's
\* first createCompany or acceptInvitation).
Init ==
  /\ users = [u \in UIDS |-> IF u = 3 THEN NoProfile ELSE EmptyProfile]
  /\ companies = [c \in CIDS |-> NoCompany]
  /\ invitations = [i \in InvitationIds |-> NoInvitation]
  /\ expenses = [e \in ExpenseIds |-> NoExpense]
  /\ last = NoCall
  /\ ncalls = 0
  /\ inflight = [s \in Slots |-> Idle]

\* ---------------------------------------------------------- createCompany
\* a check that finds no caller in a company
AlreadyInCompany_Never(userDoc) == FALSE

\* userDocSnap.exists && userDocSnap.data().companyId
AlreadyInCompany(userDoc) == userDoc.exists /\ userDoc.companyId # NullCompany

CreateCompany(tok) ==
  LET call == [NoCall EXCEPT !.op = "createCompany", !.tok = tok]
      v == verifyIdToken(tok)
      uid == v.uid
  IN
  IF tok = MissingToken THEN Fail(call, "no-token")
  ELSE IF ~v.ok THEN Fail(call, "auth")
  ELSE IF AlreadyInCompany(users[uid])
       THEN Fail(call, "already-in-company")
  ELSE /\ FreeIds(companies, CIDS) # {}
       /\ LET cid == NewId(companies, CIDS) IN
          /\ companies' = [companies EXCEPT ![cid] =
                             [exists |-> TRUE, ownerId |-> uid, members |-> {uid}]]
          /\ users' = [users EXCEPT ![uid] =
                             [exists |-> TRUE, companyId |-> cid, role |-> "owner"]]
          /\ last' = [call EXCEPT !.success = TRUE, !.wrote = TRUE, !.docId = cid]
       /\ UNCHANGED <<invitations, expenses>>

\* --------------------------------------------------------- sendInvitation
\* createCompany as it runs among other requests: the token is verified and
\* the caller's profile is read and checked first; the company is added and
\* the profile is set later, with no transaction around the three steps
CreateBegin(slot, tok) ==
  LET call == [NoCall EXCEPT !.op = "createCompany", !.tok = tok]
      v == verifyIdToken(tok)
  IN
  /\ inflight[slot].op = "idle"
  /\ IF tok = MissingToken THEN Fail(call, "no-token") /\ UNCHANGED inflight
     ELSE IF ~v.ok THEN Fail(call, "auth") /\ UNCHANGED inflight
     ELSE IF AlreadyInCompany(users[v.uid])
          THEN Fail(call, "already-in-company") /\ UNCHANGED inflight
     ELSE /\ inflight' = [inflight EXCEPT ![slot] =
                [op |-> "createCompany", call |-> call, uid |-> v.uid,
                 invitationId |-> 0, inv |-> NoInvitation]]
          /\ UNCHANGED <<db, last>>

\* companies.add(companyData), then users/uid.set({companyId, role}, merge)
CreateCommit(slot) ==
  LET uid == inflight[slot].uid IN
  /\ inflight[slot].op = "createCompany"
  /\ FreeIds(companies, CIDS) # {}
  /\ LET cid == NewId(companies, CIDS) IN
     /\ companies' = [companies EXCEPT ![cid] =
                        [exists |-> TRUE, ownerId |-> uid, members |-> {uid}]]
     /\ users' = [users EXCEPT ![uid] =
                        [exists |-> TRUE, companyId |-> cid, role |-> "owner"]]
     /\ last' = [inflight[slot].call EXCEPT !.success = TRUE, !.wrote = TRUE,
                                            !.docId = cid]
  /\ inflight' = [inflight EXCEPT ![slot] = Idle]
  /\ UNCHANGED <<invitations, expenses, ncalls>>

\* an inviter check that accepts every member of the company
InviterAuthorized_AnyMember(inviterProfile, companyId) ==
  ~(inviterProfile.companyId # companyId)

\* the inviter must be owner or admin of the target company
InviterAuthorized(inviterProfile, companyId) ==
  ~(inviterProfile.companyId # companyId
      \/ (inviterProfile.role # "owner" /\ inviterProfile.role # "admin"))

\* "Check if invitee is already a member": getUserByEmail, then
\* inviteeProfileDoc.exists() inside an inner try whose catch only logs
inviteeAlreadyMember(inviteeEmail, companyId) ==
  LET found == {u \in UIDS : toLowerCase(EmailOf(u)) = toLowerCase(inviteeEmail)} IN
  IF found = {} THEN FALSE                \* auth/user-not-found: caught
  ELSE IF ExistsCallThrows THEN FALSE     \* TypeError: caught and logged
  ELSE \E u \in found : users[u].exists /\ users[u].companyId = companyId

SendInvitation(tok, companyId, inviteeEmail, role) ==
  LET call == [NoCall EXCEPT !.op = "sendInvitation", !.tok = tok,
                 !.companyId = companyId, !.email = inviteeEmail, !.role = role]
      v == verifyIdToken(tok)
      inviterUid == v.uid
  IN
  IF tok = MissingToken THEN Fail(call, "no-token")
  ELSE IF ~v.ok THEN Fail(call, "auth")
  ELSE IF ~companies[companyId].exists THEN Fail(call, "company-not-found")
  ELSE IF ~users[inviterUid].exists THEN Fail(call, "profile-not-found")
  ELSE IF ~InviterAuthorized(users[inviterUid], companyId)
       THEN Fail(call, "not-authorized")
  ELSE IF role = "owner" /\ users[inviterUid].role # "owner"
       THEN Fail(call, "only-owners-invite-owners")
  ELSE IF inviteeAlreadyMember(inviteeEmail, companyId)
       THEN Fail(call, "already-member")
  ELSE /\ FreeIds(invitations, InvitationIds) # {}
       /\ LET id == NewId(invitations, InvitationIds) IN
          /\ invitations' = [invitations EXCEPT ![id] =
                [exists |-> TRUE, companyId |-> companyId,
                 inviteeEmail |-> inviteeEmail, inviterId |-> inviterUid,
                 role |-> role, status |-> "pending", acceptedBy |-> NoUser]]
          /\ last' = [call EXCEPT !.success = TRUE, !.wrote = TRUE, !.docId = id]
       /\ UNCHANGED <<users, companies, expenses>>

\* -------------------------------------------------------- acceptInvitation
\* the checks with the e-mails compared as they are
InvitationError_CaseSensitive(invitationData, acceptingUserEmail) ==
  IF invitationData.inviteeEmail # acceptingUserEmail
  THEN "not-for-you"
  ELSE IF invitationData.status # "pending" THEN "already-" \o invitationData.status
  ELSE ""

\* the two checks made on the invitation before the transaction: "" when it
\* may be accepted, else the error
InvitationError(invitationData, acceptingUserEmail) ==
  IF toLowerCase(invitationData.inviteeEmail) # toLowerCase(acceptingUserEmail)
  THEN "not-for-you"
  ELSE IF invitationData.status # "pending" THEN "already-" \o invitationData.status
  ELSE ""

\* a transaction that commits the company and the invitation but not the profile
AcceptTransaction_NoProfile(call, invitationId, inv, acceptingUserId) ==
  IF ~companies[inv.companyId].exists
  THEN /\ last' = [call EXCEPT !.success = FALSE, !.error = "company-gone"]
       /\ UNCHANGED db
  ELSE /\ companies' = [companies EXCEPT ![inv.companyId].members = @ \cup {acceptingUserId}]
       /\ invitations' = [invitations EXCEPT ![invitationId].status = "accepted",
                                             ![invitationId].acceptedBy = acceptingUserId]
       /\ last' = [call EXCEPT !.success = TRUE, !.wrote = TRUE]
       /\ UNCHANGED <<users, expenses>>

\* the body of runTransaction: one atomic commit of three writes, or a throw
\* that writes nothing.  inv is the invitation as read before the transaction.
AcceptTransaction(call, invitationId, inv, acceptingUserId) ==
  IF ~companies[inv.companyId].exists
  THEN Fail(call, "company-gone")
  ELSE /\ companies' = [companies EXCEPT ![inv.companyId].members = @ \cup {acceptingUserId}]
       /\ invitations' = [invitations EXCEPT ![invitationId].status = "accepted",
                                             ![invitationId].acceptedBy = acceptingUserId]
       /\ users' = [users EXCEPT ![acceptingUserId] =
                       [exists |-> TRUE, companyId |-> inv.companyId, role |-> inv.role]]
       /\ last' = [call EXCEPT !.success = TRUE, !.wrote = TRUE]
       /\ UNCHANGED expenses

AcceptInvitation(tok, invitationId) ==
  LET call == [NoCall EXCEPT !.op = "acceptInvitation", !.tok = tok,
                 !.invitationId = invitationId]
      v == verifyIdToken(tok)
      invitationData == invitations[invitationId]
  IN
  IF tok = MissingToken THEN Fail(call, "no-token")
  ELSE IF ~v.ok THEN Fail(call, "auth")
  ELSE IF ~invitationData.exists THEN Fail(call, "invitation-not-found")
  ELSE IF InvitationError(invitationData, v.email) # ""
       THEN Fail(call, InvitationError(invitationData, v.email))
  ELSE AcceptTransaction(call, invitationId, invitationData, v.uid)

\* acceptInvitation as it runs among other requests: the token and the
\* invitation are read and checked first, the transaction runs later
AcceptBegin(slot, tok, invitationId) ==
  LET call == [NoCall EXCEPT !.op = "acceptInvitation", !.tok = tok,
                 !.invitationId = invitationId]
      v == verifyIdToken(tok)
      invitationData == invitations[invitationId]
  IN
  /\ inflight[slot].op = "idle"
  /\ IF tok = MissingToken THEN Fail(call, "no-token") /\ UNCHANGED inflight
     ELSE IF ~v.ok THEN Fail(call, "auth") /\ UNCHANGED inflight
     ELSE IF ~invitationData.exists
          THEN Fail(call, "invitation-not-found") /\ UNCHANGED inflight
     ELSE IF InvitationError(invitationData, v.email) # ""
          THEN Fail(call, InvitationError(invitationData, v.email))
               /\ UNCHANGED inflight
     ELSE /\ inflight' = [inflight EXCEPT ![slot] =
                [op |-> "acceptInvitation", call |-> call, uid |-> v.uid,
                 invitationId |-> invitationId, inv |-> invitationData]]
          /\ UNCHANGED <<db, last>>

AcceptCommit(slot) ==
  /\ inflight[slot].op = "acceptInvitation"
  /\ AcceptTransaction(inflight[slot].call, inflight[slot].invitationId,
                       inflight[slot].inv, inflight[slot].uid)
  /\ inflight' = [inflight EXCEPT ![slot] = Idle]
  /\ UNCHANGED ncalls

\* ---------------------------------------------------------- updateUserRole
\* companyData.members.filter(async id => ...).length: the callback returns
\* a Promise, which is truthy, so the filter keeps every member
OwnerCount(companyData) == Cardinality(companyData.members)

\* an authorization block that lets an admin do what an owner may
RoleChangeError_AdminAsOwner(requesterProfile, companyData, targetUserId, newRole) ==
  IF requesterProfile.role = "owner" \/ requesterProfile.role = "admin"
  THEN IF targetUserId = companyData.ownerId /\ newRole # "owner"
            /\ OwnerCount(companyData) <= 1
       THEN "sole-owner"
       ELSE ""
  ELSE "not-authorized"

\* the authorization block: "" when the change may proceed, else the error
RoleChangeError(requesterProfile, companyData, targetUserId, newRole) ==
  IF requesterProfile.role = "owner"
  THEN IF targetUserId = companyData.ownerId /\ newRole # "owner"
            /\ OwnerCount(companyData) <= 1
       THEN "sole-owner"
       ELSE ""
  ELSE IF requesterProfile.role = "admin"
  THEN IF newRole = "owner" \/ newRole = "admin" THEN "admin-cannot-promote"
       ELSE IF ExistsCallThrows THEN "type-error"
       ELSE IF users[targetUserId].exists
               /\ (users[targetUserId].role = "owner" \/ users[targetUserId].role = "admin")
       THEN "admin-cannot-change-admin"
       ELSE ""
  ELSE "not-authorized"

\* the writes: two sequential updates for an ownership transfer, then the
\* update of the target; DocumentReference.update throws on a missing
\* document and the writes made before it stay
RoleChangeWrites(call, targetUserId, companyId, newRole) ==
  LET companyData == companies[companyId]
      transfer == newRole = "owner" /\ targetUserId # companyData.ownerId
      users1 == IF transfer THEN [users EXCEPT ![companyData.ownerId].role = "admin"]
                ELSE users
      companies1 == IF transfer THEN [companies EXCEPT ![companyId].ownerId = targetUserId]
                    ELSE companies
  IN
  IF transfer /\ ~users[companyData.ownerId].exists
  THEN Fail(call, "not-found")
  ELSE /\ companies' = companies1
       /\ IF users1[targetUserId].exists
          THEN /\ users' = [users1 EXCEPT ![targetUserId].role = newRole]
               /\ last' = [call EXCEPT !.success = TRUE, !.wrote = TRUE]
          ELSE /\ users' = users1
               /\ last' = [call EXCEPT !.success = FALSE, !.error = "not-found",
                                        !.wrote = transfer]
       /\ UNCHANGED <<invitations, expenses>>

UpdateUserRole(tok, targetUserId, companyId, newRole) ==
  LET call == [NoCall EXCEPT !.op = "updateUserRole", !.tok = tok,
                 !.target = targetUserId, !.companyId = companyId, !.role = newRole]
      v == verifyIdToken(tok)
      requesterProfile == users[v.uid]
  IN
  IF tok = MissingToken THEN Fail(call, "no-token")
  ELSE IF ~v.ok THEN Fail(call, "auth")
  ELSE IF ~requesterProfile.exists THEN Fail(call, "profile-not-found")
  ELSE IF requesterProfile.companyId # companyId THEN Fail(call, "not-in-company")
  ELSE IF ~companies[companyId].exists THEN Fail(call, "company-not-found")
  ELSE IF RoleChangeError(requesterProfile, companies[companyId], targetUserId, newRole) # ""
       THEN Fail(call, RoleChangeError(requesterProfile, companies[companyId],
                                       targetUserId, newRole))
  ELSE RoleChangeWrites(call, targetUserId, companyId, newRole)

\* --------------------------------------------------- removeUserFromCompany
\* an owner check that never fires
IsCompanyOwner_Never(uid, companyData) == FALSE

\* "Owner cannot be removed. Transfer ownership first."
IsCompanyOwner(uid, companyData) == uid = companyData.ownerId

RemoverAuthorized(requesterProfile, companyId) ==
  ~(requesterProfile.companyId # companyId
      \/ (requesterProfile.role # "owner" /\ requesterProfile.role # "admin"))

\* "Admins cannot remove other admins": targetUserProfileDoc.exists()
AdminRemoveError(requesterProfile, targetUserId) ==
  IF requesterProfile.role = "admin"
  THEN IF ExistsCallThrows THEN "type-error"
       ELSE IF users[targetUserId].exists /\ users[targetUserId].role = "admin"
       THEN "admin-cannot-remove-admin"
       ELSE ""
  ELSE ""

\* users/{uid}.update({companyId: null, role: null}) then arrayRemove
DetachWrites(call, uid, companyId) ==
  IF ~users[uid].exists
  THEN Fail(call, "not-found")
  ELSE /\ users' = [users EXCEPT ![uid].companyId = NullCompany, ![uid].role = NullRole]
       /\ companies' = [companies EXCEPT ![companyId].members = @ \ {uid}]
       /\ last' = [call EXCEPT !.success = TRUE, !.wrote = TRUE]
       /\ UNCHANGED <<invitations, expenses>>

RemoveUserFromCompany(tok, targetUserId, companyId) ==
  LET call == [NoCall EXCEPT !.op = "removeUserFromCompany", !.tok = tok,
                 !.target = targetUserId, !.companyId = companyId]
      v == verifyIdToken(tok)
      requesterProfile == users[v.uid]
  IN
  IF tok = MissingToken THEN Fail(call, "no-token")
  ELSE IF ~v.ok THEN Fail(call, "auth")
  ELSE IF ~companies[companyId].exists THEN Fail(call, "company-not-found")
  ELSE IF IsCompanyOwner(targetUserId, companies[companyId])
       THEN Fail(call, "owner-cannot-be-removed")
  ELSE IF ~requesterProfile.exists THEN Fail(call, "profile-not-found")
  ELSE IF ~RemoverAuthorized(requesterProfile, companyId)
       THEN Fail(call, "not-authorized")
  ELSE IF AdminRemoveError(requesterProfile, targetUserId) # ""
       THEN Fail(call, AdminRemoveError(requesterProfile, targetUserId))
  ELSE DetachWrites(call, targetUserId, companyId)

\* ------------------------------------------------------------ leaveCompany
LeaveCompany(tok, companyId) ==
  LET call == [NoCall EXCEPT !.op = "leaveCompany", !.tok = tok,
                 !.companyId = companyId]
      v == verifyIdToken(tok)
  IN
  IF tok = MissingToken THEN Fail(call, "no-token")
  ELSE IF ~v.ok THEN Fail(call, "auth")
  ELSE IF ~companies[companyId].exists THEN Fail(call, "company-not-found")
  ELSE IF IsCompanyOwner(v.uid, companies[companyId])
       THEN Fail(call, "owner-cannot-leave")
  ELSE DetachWrites(call, v.uid, companyId)

\* ----------------------------------------------------- processReceiptImage
expenseCategories == {"food", "travel", "supplies", "entertainment", "other"}
paymentMethods == {"card", "cash", "online", "other"}

\* what the extraction can return for category and paymentMethod: a listed
\* value, a value of the other list, an unlisted word, a listed word in
\* another case, the empty string
AiStrings ==
  expenseCategories \cup paymentMethods \cup {"grocery", "Food", "CASH", ""}

\* a coercion that accepts the values of both lists
validateCategory_EitherList(aiCategory) ==
  IF aiCategory \in expenseCategories \cup paymentMethods THEN aiCategory ELSE "other"

validateCategory(aiCategory) ==
  IF aiCategory \in expenseCategories THEN aiCategory ELSE "other"

validatePaymentMethod(aiPaymentMethod) ==
  IF aiPaymentMethod \in paymentMethods THEN aiPaymentMethod ELSE "other"

\* result.items.map(...): quantity = Number(q) || 1, netPrice = Number(p) || 0
processedItems(items) ==
  [i \in 1..Len(items) |->
     [quantity |-> OrElse(Number(items[i].quantity), Num(Scale)),
      netPrice |-> OrElse(Number(items[i].netPrice), Num(0))]]

\* the item lists of an extraction: no item or one item
ReceiptItemLists == UNION { [1..n -> RawItems] : n \in 0..1 }

\* the extraction has returned `result`, held in the call record
ProcessReceiptImage ==
  /\ last.op = "extractReceiptData"
  /\ \/ last' = [last EXCEPT !.op = "processReceiptImage", !.success = TRUE,
                    !.items = processedItems(last.aiItems),
                    !.category = validateCategory(last.aiCategory),
                    !.paymentMethod = validatePaymentMethod(last.aiPaymentMethod)]
     \/ last' = [NoCall EXCEPT !.op = "processReceiptImage", !.success = FALSE,
                    !.error = "processing-failed"]
  /\ UNCHANGED db

\* ------------------------------------------------------------- saveExpense
\* the submitted form payloads: ExpenseFormData carries an optional status
\* and an optional companyId of its own
FormItems ==
  << [quantity |-> JsNumber(Num(-30)), netPrice |-> JsNumber(Num(125))],
     [quantity |-> JsString(<<"a", "b", "c">>), netPrice |-> JsString(<<"4", ".", "5">>)] >>

FormData ==
  { [status |-> NoStatus, companyId |-> NullCompany, items |-> FormItems],
    [status |-> "rejected", companyId |-> 1, items |-> FormItems],
    [status |-> "approved", companyId |-> 2, items |-> FormItems] }

\* a quantity saved as the form gave it, without the floor of 1
QuantityOnSave_NoFloor(item) == OrElse(Number(item.quantity), Num(Scale))

\* quantity: Math.max(1, Number(item.quantity) || 1)
QuantityOnSave(item) == MathMax(Num(Scale), OrElse(Number(item.quantity), Num(Scale)))

\* netPrice: Number(item.netPrice) || 0
NetPriceOnSave(item) == OrElse(Number(item.netPrice), Num(0))

\* data.items.map(...): the name of an item is stored as submitted
ItemsOnSave(data) ==
  [i \in 1..Len(data.items) |->
     [quantity |-> QuantityOnSave(data.items[i]),
      netPrice |-> NetPriceOnSave(data.items[i])]]

\* items.reduce((sum, item) => sum + item.netPrice, 0)
RECURSIVE TotalAmount(_)
TotalAmount(items) ==
  IF items = <<>> THEN Num(0)
  ELSE Plus(TotalAmount(SubSeq(items, 1, Len(items) - 1)), items[Len(items)].netPrice)

\* a save that trusts the status of the form
StatusOnSave_FromForm(userProfile, data) ==
  IF data.status # NoStatus THEN data.status
  ELSE IF userProfile.exists /\ userProfile.companyId # NullCompany
  THEN "pending" ELSE "approved"

\* status: userProfile?.companyId ? 'pending' : 'approved'
StatusOnSave(userProfile, data) ==
  IF userProfile.exists /\ userProfile.companyId # NullCompany
  THEN "pending" ELSE "approved"

\* a save that stores the companyId of the form when it has one
CompanyIdOnSave_FromForm(userProfile, data) ==
  IF data.companyId # NullCompany THEN data.companyId
  ELSE IF userProfile.exists /\ userProfile.companyId # NullCompany
  THEN userProfile.companyId ELSE NullCompany

\* companyId: userProfile?.companyId || null
CompanyIdOnSave(userProfile, data) ==
  IF userProfile.exists /\ userProfile.companyId # NullCompany
  THEN userProfile.companyId ELSE NullCompany

SaveExpense(tok, data) ==
  LET call == [NoCall EXCEPT !.op = "saveExpense", !.tok = tok,
                 !.status = data.status, !.dataCompanyId = data.companyId,
                 !.items = data.items]
      v == verifyIdToken(tok)
      userProfile == users[v.uid]
  IN
  IF tok = MissingToken THEN Fail(call, "no-token")
  ELSE IF ~v.ok THEN Fail(call, "auth")
  ELSE /\ FreeIds(expenses, ExpenseIds) # {}
       /\ LET id == NewId(expenses, ExpenseIds) IN
          /\ expenses' = [expenses EXCEPT ![id] =
                [exists |-> TRUE, userId |-> v.uid,
                 companyId |-> CompanyIdOnSave(userProfile, data),
                 status |-> StatusOnSave(userProfile, data),
                 items |-> ItemsOnSave(data),
                 totalAmount |-> TotalAmount(ItemsOnSave(data))]]
          /\ last' = [call EXCEPT !.success = TRUE, !.wrote = TRUE, !.docId = id]
       /\ UNCHANGED <<users, companies, invitations>>

\* ----------------------------------------------------------- deleteExpense
\* the Delete control of the expense history: `user` is the signed-in
\* user's profile, absent when nobody is signed in or no profile is loaded
canDeleteExpense(uid, user, expense) ==
  IF ~user.exists THEN FALSE
  ELSE IF user.role = "owner" \/ user.role = "admin"
  THEN user.companyId = expense.companyId
  ELSE IF user.role = "user"
  THEN expense.userId = uid
  ELSE FALSE

\* a check that lets every creator delete, whatever the expense's company
DeleteAuthorized_AnyCreator(uid, expenseData, userData) ==
  expenseData.userId = uid

DeleteAuthorized_AnyMember(uid, expenseData, userData) ==
  IF expenseData.userId = uid /\ expenseData.companyId = NullCompany
  THEN TRUE
  ELSE expenseData.companyId # NullCompany
          /\ expenseData.companyId = userData.companyId

DeleteAuthorized(uid, expenseData, userData) ==
  IF expenseData.userId = uid /\ expenseData.companyId = NullCompany
  THEN TRUE
  ELSE IF expenseData.companyId # NullCompany
          /\ expenseData.companyId = userData.companyId
  THEN IF userData.role = "owner" \/ userData.role = "admin" THEN TRUE
       ELSE userData.role = "user" /\ expenseData.userId = uid
  ELSE FALSE

DeleteExpense(tok, expenseId) ==
  LET call == [NoCall EXCEPT !.op = "deleteExpense", !.tok = tok,
                 !.expenseId = expenseId]
      v == verifyIdToken(tok)
  IN
  IF tok = MissingToken THEN Fail(call, "no-token")
  ELSE IF ~v.ok THEN Fail(call, "auth")
  ELSE IF ~expenses[expenseId].exists THEN Fail(call, "expense-not-found")
  ELSE IF ~users[v.uid].exists THEN Fail(call, "profile-not-found")
  ELSE IF ~DeleteAuthorized(v.uid, expenses[expenseId], users[v.uid])
       THEN Fail(call, "not-authorized")
  ELSE /\ expenses' = [expenses EXCEPT ![expenseId] = NoExpense]
       /\ last' = [call EXCEPT !.success = TRUE, !.wrote = TRUE]
       /\ UNCHANGED <<users, companies, invitations>>

\* ----------------------------------------------------- updateExpenseStatus
\* an authorization that forgets the role
StatusUpdateAuthorized_AnyRole(expenseData, userData) ==
  ~(expenseData.companyId # userData.companyId)

\* the caller must be owner or admin of the expense's company
StatusUpdateAuthorized(expenseData, userData) ==
  ~(expenseData.companyId # userData.companyId
      \/ (userData.role # "owner" /\ userData.role # "admin"))

\* a test that takes every expense for a company expense
IsCompanyExpense_Always(expenseData) == TRUE

\* !expenseData.companyId rejects an expense without a company
IsCompanyExpense(expenseData) == expenseData.companyId # NullCompany

\* expenseRef.update({ status: newStatus })
StatusAfterUpdate(expenseData, newStatus) == newStatus

UpdateExpenseStatus(tok, expenseId, newStatus) ==
  LET call == [NoCall EXCEPT !.op = "updateExpenseStatus", !.tok = tok,
                 !.expenseId = expenseId, !.status = newStatus]
      v == verifyIdToken(tok)
      expenseData == expenses[expenseId]
  IN
  IF tok = MissingToken THEN Fail(call, "no-token")
  ELSE IF ~v.ok THEN Fail(call, "auth")
  ELSE IF ~expenseData.exists THEN Fail(call, "expense-not-found")
  ELSE IF ~IsCompanyExpense(expenseData) THEN Fail(call, "not-company-expense")
  ELSE IF ~users[v.uid].exists THEN Fail(call, "profile-not-found")
  ELSE IF ~StatusUpdateAuthorized(expenseData, users[v.uid])
       THEN Fail(call, "not-authorized")
  ELSE /\ expenses' = [expenses EXCEPT ![expenseId].status =
                           StatusAfterUpdate(expenseData, newStatus)]
       /\ last' = [call EXCEPT !.success = TRUE, !.wrote = TRUE]
       /\ UNCHANGED <<users, companies, invitations>>

\* ------------------------------------------------------------- getExpenses
\* the three queries: the whole company for owner, admin and auditor, the
\* caller's own company expenses for a user, the caller's own otherwise
\* a query that gives a member with role user the whole company
ExpenseVisible_CompanyWide(uid, userData, expenseData) ==
  IF userData.companyId # NullCompany
  THEN expenseData.companyId = userData.companyId
  ELSE expenseData.userId = uid

ExpenseVisible(uid, userData, expenseData) ==
  IF userData.companyId # NullCompany
     /\ (userData.role = "owner" \/ userData.role = "admin" \/ userData.role = "auditor")
  THEN expenseData.companyId = userData.companyId
  ELSE IF userData.companyId # NullCompany /\ userData.role = "user"
  THEN expenseData.userId = uid /\ expenseData.companyId = userData.companyId
  ELSE expenseData.userId = uid

\* a read returns a list and no success flag: `success` records that the
\* query ran, `result` the ids of the documents returned
Return(call, ids) ==
  /\ last' = [call EXCEPT !.success = TRUE, !.result = ids]
  /\ UNCHANGED db

GetExpenses(tok) ==
  LET call == [NoCall EXCEPT !.op = "getExpenses", !.tok = tok]
      v == verifyIdToken(tok)
  IN
  IF tok = MissingToken THEN Fail(call, "no-token")
  ELSE IF ~v.ok THEN Fail(call, "auth")
  ELSE IF ~users[v.uid].exists THEN Fail(call, "profile-not-found")
  ELSE Return(call, {e \in ExpenseIds :
                       /\ expenses[e].exists
                       /\ ExpenseVisible(v.uid, users[v.uid], expenses[e])})

\* ----------------------------------------------------- getCompaniesForUser
GetCompaniesForUser(tok) ==
  LET call == [NoCall EXCEPT !.op = "getCompaniesForUser", !.tok = tok]
      v == verifyIdToken(tok)
  IN
  IF tok = MissingToken THEN Fail(call, "no-token")
  ELSE IF ~v.ok THEN Fail(call, "auth")
  ELSE Return(call, {c \in CIDS :
                       /\ companies[c].exists
                       /\ (companies[c].ownerId = v.uid \/ v.uid \in companies[c].members)})

\* --------------------------------------------------- getInvitationsForUser
GetInvitationsForUser(tok) ==
  LET call == [NoCall EXCEPT !.op = "getInvitationsForUser", !.tok = tok]
      v == verifyIdToken(tok)
  IN
  IF tok = MissingToken THEN Fail(call, "no-token")
  ELSE IF ~v.ok THEN Fail(call, "auth")
  ELSE IF v.email = <<>> THEN Fail(call, "no-email")
  ELSE Return(call, {i \in InvitationIds :
                       /\ invitations[i].exists
                       /\ invitations[i].inviteeEmail = v.email
                       /\ invitations[i].status = "pending"})

\* ----------------------------------------------------------- specification
\* A call that wrote nothing leaves the store as the call before it left it:
\* every store state reachable through such a call is reachable without it.
\* Calls are therefore explored from the initial states and from the states
\* that a writing call produced.
AfterWrite == last.op = "none" \/ last.wrote

ExpenseCall ==
  \/ \E tok \in Tokens, data \in FormData : SaveExpense(tok, data)
  \/ \E tok \in Tokens, e \in ExpenseIds : DeleteExpense(tok, e)
  \/ \E tok \in Tokens, e \in ExpenseIds, st \in ExpenseStatus :
        UpdateExpenseStatus(tok, e, st)
  \/ \E tok \in Tokens : GetExpenses(tok)

CompanyCall ==
  \/ \E tok \in Tokens : CreateCompany(tok)
  \/ \E tok \in Tokens, c \in CIDS, em \in InviteeEmails, r \in UserRole :
        SendInvitation(tok, c, em, r)
  \/ \E tok \in Tokens, i \in InvitationIds : AcceptInvitation(tok, i)
  \/ \E tok \in Tokens, t \in UIDS, c \in CIDS, r \in UserRole :
        UpdateUserRole(tok, t, c, r)
  \/ \E tok \in Tokens, t \in UIDS, c \in CIDS : RemoveUserFromCompany(tok, t, c)
  \/ \E tok \in Tokens, c \in CIDS : LeaveCompany(tok, c)

\* the company, membership and invitation actions
Next ==
  /\ AfterWrite
  /\ ncalls < MaxCalls
  /\ ncalls' = ncalls + 1
  /\ CompanyCall
  /\ UNCHANGED inflight

Spec == Init /\ [][Next]_vars

\* the expense actions, with the actions that give a user a company and a role
JoinCall ==
  \/ \E tok \in Tokens : CreateCompany(tok)
  \/ \E tok \in Tokens, c \in CIDS, em \in InviteeEmails, r \in UserRole :
        SendInvitation(tok, c, em, r)
  \/ \E tok \in Tokens, i \in InvitationIds : AcceptInvitation(tok, i)
  \/ \E tok \in Tokens, c \in CIDS : LeaveCompany(tok, c)

ExpenseNext ==
  /\ AfterWrite
  /\ ncalls < MaxExpenseCalls
  /\ ncalls' = ncalls + 1
  /\ (JoinCall \/ ExpenseCall)
  /\ UNCHANGED inflight

SpecExpense == Init /\ [][ExpenseNext]_vars

\* saveExpense on every submitted item list
InitItems ==
  /\ users = [u \in UIDS |-> IF u = 3 THEN NoProfile ELSE EmptyProfile]
  /\ companies = [c \in CIDS |-> NoCompany]
  /\ invitations = [i \in InvitationIds |-> NoInvitation]
  /\ expenses = [e \in ExpenseIds |-> NoExpense]
  /\ \E its \in RawItemLists : last = [NoCall EXCEPT !.op = "submit", !.items = its]
  /\ ncalls = 0
  /\ inflight = [s \in Slots |-> Idle]

ItemsNext ==
  /\ last.op = "submit"
  /\ ncalls' = ncalls + 1
  /\ \E tok \in UIDS :
        SaveExpense(tok, [status |-> NoStatus, companyId |-> NullCompany,
                          items |-> last.items])
  /\ UNCHANGED inflight

SpecItems == InitItems /\ [][ItemsNext]_vars

\* processReceiptImage on every extraction result
InitReceipt ==
  /\ users = [u \in UIDS |-> IF u = 3 THEN NoProfile ELSE EmptyProfile]
  /\ companies = [c \in CIDS |-> NoCompany]
  /\ invitations = [i \in InvitationIds |-> NoInvitation]
  /\ expenses = [e \in ExpenseIds |-> NoExpense]
  /\ \E c \in AiStrings, p \in AiStrings, its \in ReceiptItemLists :
        last = [NoCall EXCEPT !.op = "extractReceiptData", !.aiCategory = c,
                  !.aiPaymentMethod = p, !.aiItems = its]
  /\ ncalls = 0
  /\ inflight = [s \in Slots |-> Idle]

ReceiptNext ==
  /\ ProcessReceiptImage
  /\ ncalls' = ncalls + 1
  /\ UNCHANGED inflight

SpecReceipt == InitReceipt /\ [][ReceiptNext]_vars

\* every server action that takes an ID token
ReadCall ==
  \/ \E tok \in Tokens : GetCompaniesForUser(tok)
  \/ \E tok \in Tokens : GetInvitationsForUser(tok)

AllNext ==
  /\ AfterWrite
  /\ ncalls < MaxAllCalls
  /\ ncalls' = ncalls + 1
  /\ (CompanyCall \/ ExpenseCall \/ ReadCall)
  /\ UNCHANGED inflight

SpecAll == Init /\ [][AllNext]_vars

\* the actions whose authorization depends on the caller's role, called with
\* verified tokens, and the actions that lead to a member with a role
RoleCall ==
  \/ \E tok \in UIDS : CreateCompany(tok)
  \/ \E tok \in UIDS, c \in CIDS, em \in InviteeEmails, r \in UserRole :
        SendInvitation(tok, c, em, r)
  \/ \E tok \in UIDS, i \in InvitationIds : AcceptInvitation(tok, i)
  \/ \E tok \in UIDS, t \in UIDS, c \in CIDS, r \in UserRole :
        UpdateUserRole(tok, t, c, r)
  \/ \E tok \in UIDS, t \in UIDS, c \in CIDS : RemoveUserFromCompany(tok, t, c)
  \/ \E tok \in UIDS, data \in FormData : SaveExpense(tok, data)
  \/ \E tok \in UIDS, e \in ExpenseIds : DeleteExpense(tok, e)
  \/ \E tok \in UIDS, e \in ExpenseIds, st \in ExpenseStatus :
        UpdateExpenseStatus(tok, e, st)

RoleNext ==
  /\ AfterWrite
  /\ ncalls < MaxRoleCalls
  /\ ncalls' = ncalls + 1
  /\ RoleCall
  /\ UNCHANGED inflight

SpecRole == Init /\ [][RoleNext]_vars

\* the company actions with acceptInvitation split at its transaction, so
\* that other requests run between its reads and its commit
AsyncCall ==
  \/ \E tok \in Tokens : CreateCompany(tok)
  \/ \E tok \in Tokens, c \in CIDS, em \in InviteeEmails, r \in UserRole :
        SendInvitation(tok, c, em, r)
  \/ \E tok \in Tokens, t \in UIDS, c \in CIDS, r \in UserRole :
        UpdateUserRole(tok, t, c, r)
  \/ \E tok \in Tokens, t \in UIDS, c \in CIDS : RemoveUserFromCompany(tok, t, c)
  \/ \E tok \in Tokens, c \in CIDS : LeaveCompany(tok, c)

AsyncNext ==
  \/ /\ AfterWrite
     /\ ncalls < MaxAsyncCalls
     /\ ncalls' = ncalls + 1
     /\ \/ AsyncCall /\ UNCHANGED inflight
        \/ \E s \in Slots, tok \in Tokens, i \in InvitationIds : AcceptBegin(s, tok, i)
  \/ \E s \in Slots : AcceptCommit(s)

SpecAsync == Init /\ [][AsyncNext]_vars

\* createCompany requests running at the same time, among invitations,
\* acceptances and departures
CreateAsyncNext ==
  \/ /\ AfterWrite
     /\ ncalls < MaxAsyncCalls
     /\ ncalls' = ncalls + 1
     /\ \/ \E s \in Slots, tok \in Tokens : CreateBegin(s, tok)
        \/ /\ \/ \E tok \in Tokens, c \in CIDS, em \in InviteeEmails, r \in UserRole :
                    SendInvitation(tok, c, em, r)
              \/ \E tok \in Tokens, i \in InvitationIds : AcceptInvitation(tok, i)
           /\ UNCHANGED inflight
  \/ \E s \in Slots : CreateCommit(s)

SpecCreateAsync == Init /\ [][CreateAsyncNext]_vars

\* ------------------------------------------------------------------ claims
EqualIgnoreCase(s, t) ==
  /\ Len(s) = Len(t)
  /\ \A i \in 1..Len(s) : LowerChar(s[i]) = LowerChar(t[i])

InCompany(profile) == profile.exists /\ profile.companyId # NullCompany

\* C1: an expense written by saveExpense is 'pending' when the caller's
\* stored profile has a companyId and 'approved' otherwise, whatever the
\* form data carries.
C1_StatusOnSave ==
  [][ (last'.op = "saveExpense" /\ last'.success) =>
        /\ expenses'[last'.docId].exists
        /\ ~expenses[last'.docId].exists
        /\ expenses'[last'.docId].status =
             IF InCompany(users[last'.tok]) THEN "pending" ELSE "approved" ]_vars

\* a company member has submitted a form that says 'approved' and the
\* stored expense is pending
C1_Witness ==
  /\ last.op = "saveExpense" /\ last.success
  /\ last.status = "approved"
  /\ InCompany(users[last.tok])
  /\ expenses[last.docId].status = "pending"

\* C2: acceptInvitation succeeds and applies the join exactly when the
\* invitation is pending and the caller's e-mail equals the invitee e-mail
\* ignoring case; otherwise it fails and changes nothing.
C2_AcceptIff ==
  [][ (last'.op = "acceptInvitation" /\ last'.tok \in UIDS
         /\ invitations[last'.invitationId].exists) =>
        LET inv == invitations[last'.invitationId]
            uid == last'.tok
            mayAccept == /\ inv.status = "pending"
                         /\ EqualIgnoreCase(inv.inviteeEmail, EmailOf(uid))
        IN /\ last'.success <=> mayAccept
           /\ last'.success =>
                /\ uid \in companies'[inv.companyId].members
                /\ users'[uid].companyId = inv.companyId
                /\ users'[uid].role = inv.role
                /\ invitations'[last'.invitationId].status = "accepted"
           /\ ~last'.success => UNCHANGED db ]_vars

\* an invitation was accepted by a caller whose e-mail differs from the
\* invitee e-mail in case only
C2_Witness ==
  /\ last.op = "acceptInvitation" /\ last.success
  /\ invitations[last.invitationId].inviteeEmail # EmailOf(last.tok)
  /\ invitations[last.invitationId].status = "accepted"

\* C3: each company's members set contains the company's ownerId.
C3_OwnerIsMember ==
  \A c \in CIDS : companies[c].exists => companies[c].ownerId \in companies[c].members

\* C4: removeUserFromCompany targeting the ownerId, and leaveCompany called
\* by the ownerId, fail and leave the profiles and the members sets unchanged.
C4_OwnerStays ==
  [][ (/\ last'.op \in {"removeUserFromCompany", "leaveCompany"}
       /\ companies[last'.companyId].exists
       /\ companies[last'.companyId].ownerId =
            IF last'.op = "leaveCompany" THEN last'.tok ELSE last'.target) =>
        /\ ~last'.success
        /\ users' = users
        /\ companies' = companies ]_vars

\* an admin of the company has tried to remove its owner
C4_Witness ==
  /\ last.op = "removeUserFromCompany" /\ ~last.success
  /\ last.tok \in UIDS
  /\ companies[last.companyId].exists
  /\ last.target = companies[last.companyId].ownerId
  /\ users[last.tok].companyId = last.companyId
  /\ users[last.tok].role = "admin"
  /\ last.tok \in companies[last.companyId].members

\* C5: once an expense is approved or rejected no updateExpenseStatus call is
\* applied to it again.
C5_TerminalStatus ==
  [][ (/\ last'.op = "updateExpenseStatus"
       /\ expenses[last'.expenseId].exists
       /\ expenses[last'.expenseId].status \in {"approved", "rejected"}) =>
        /\ ~last'.success
        /\ expenses' = expenses ]_vars

\* C6: updateExpenseStatus changes a status only for a caller who is owner
\* or admin of the expense's company; for every other caller it fails and
\* the expenses are unchanged.
C6_StatusUpdateAuthorized ==
  [][ last'.op = "updateExpenseStatus" =>
        LET e == last'.expenseId
            authorized == /\ last'.tok \in UIDS
                          /\ users[last'.tok].role \in {"owner", "admin"}
                          /\ users[last'.tok].companyId = expenses[e].companyId
        IN /\ ~authorized => (~last'.success /\ expenses' = expenses)
           /\ last'.success => (authorized /\ expenses'[e].status = last'.status)
    ]_vars

\* a member with role user has tried to change the status of an expense of
\* their own company
C6_Witness ==
  /\ last.op = "updateExpenseStatus" /\ ~last.success
  /\ last.tok \in UIDS
  /\ expenses[last.expenseId].exists
  /\ users[last.tok].role = "user"
  /\ users[last.tok].companyId = expenses[last.expenseId].companyId
  /\ expenses[last.expenseId].status = "pending"

\* C7: updateUserRole by a requester with role admin fails and changes no
\* profile when the target is owner or admin or the new role is owner or admin.
C7_AdminCannotPromote ==
  [][ (/\ last'.op = "updateUserRole"
       /\ last'.tok \in UIDS
       /\ users[last'.tok].role = "admin"
       /\ \/ users[last'.target].role \in {"owner", "admin"}
          \/ last'.role \in {"owner", "admin"}) =>
        /\ ~last'.success
        /\ users' = users
        /\ companies' = companies ]_vars

\* an admin of the company has asked to make the owner a user
C7_Witness ==
  /\ last.op = "updateUserRole" /\ ~last.success
  /\ last.tok \in UIDS
  /\ users[last.tok].role = "admin"
  /\ users[last.tok].companyId = last.companyId
  /\ users[last.target].role = "owner"
  /\ users[last.target].companyId = last.companyId
  /\ last.role = "user"

\* C8: every updateUserRole call whose target is the company's ownerId and
\* whose new role is not owner is rejected, whatever the number of members.
C8_OwnerNotDemoted ==
  [][ (/\ last'.op = "updateUserRole"
       /\ companies[last'.companyId].exists
       /\ last'.target = companies[last'.companyId].ownerId
       /\ last'.role # "owner") =>
        ~last'.success ]_vars

\* C9: an ownership transfer by updateUserRole applies all of {old owner
\* becomes admin, ownerId becomes the target, target becomes owner} or none.
C9_TransferAtomic ==
  [][ (/\ last'.op = "updateUserRole"
       /\ last'.role = "owner"
       /\ companies[last'.companyId].exists
       /\ last'.target # companies[last'.companyId].ownerId) =>
        LET c == last'.companyId
            oldOwner == companies[c].ownerId
        IN \/ /\ users' = users
              /\ companies' = companies
           \/ /\ users'[oldOwner].role = "admin"
              /\ companies'[c].ownerId = last'.target
              /\ users'[last'.target].role = "owner" ]_vars

\* C10: the commit of acceptInvitation applies its three effects together:
\* the acceptor is in the company's members, the invitation is accepted by
\* the acceptor, and the acceptor's profile has the invitation's company and
\* role; a failed commit writes nothing, and an invitation becomes accepted
\* in no other step.
C10_AcceptAtomic ==
  [][ /\ \A s \in Slots :
           (inflight[s].op = "acceptInvitation" /\ inflight'[s].op = "idle") =>
             LET r == inflight[s] IN
             IF last'.success
             THEN /\ r.uid \in companies'[r.inv.companyId].members
                  /\ invitations'[r.invitationId].status = "accepted"
                  /\ invitations'[r.invitationId].acceptedBy = r.uid
                  /\ users'[r.uid].exists
                  /\ users'[r.uid].companyId = r.inv.companyId
                  /\ users'[r.uid].role = r.inv.role
             ELSE UNCHANGED db
      /\ \A i \in InvitationIds :
           (invitations'[i].status = "accepted" /\ invitations[i].status # "accepted") =>
             LET u == invitations'[i].acceptedBy
                 c == invitations'[i].companyId
             IN /\ u \in UIDS
                /\ u \in companies'[c].members
                /\ users'[u].companyId = c
                /\ users'[u].role = invitations'[i].role ]_vars

\* an acceptance has committed while another request for the same
\* invitation is still between its reads and its commit
C10_Witness ==
  /\ last.op = "acceptInvitation" /\ last.success
  /\ invitations[last.invitationId].status = "accepted"
  /\ \E s \in Slots : /\ inflight[s].op = "acceptInvitation"
                      /\ inflight[s].invitationId = last.invitationId

RoleGatedOps ==
  {"deleteExpense", "updateExpenseStatus", "sendInvitation",
   "removeUserFromCompany", "updateUserRole"}

C12_NoReinvite ==
  [][ (/\ last'.op = "sendInvitation"
       /\ \E u \in UIDS : /\ EmailOf(u) = last'.email
                          /\ users[u].exists
                          /\ users[u].companyId = last'.companyId) =>
        (~last'.success /\ invitations' = invitations) ]_vars

\* C13: sendInvitation creates an invitation, always pending, only for an
\* inviter who is owner or admin of the target company, and one with role
\* owner only for an inviter with role owner; otherwise it fails and creates
\* nothing.
C13_InviteAuthorized ==
  [][ last'.op = "sendInvitation" =>
        LET authorized ==
              /\ last'.tok \in UIDS
              /\ users[last'.tok].companyId = last'.companyId
              /\ users[last'.tok].role \in {"owner", "admin"}
              /\ (last'.role = "owner" => users[last'.tok].role = "owner")
        IN /\ ~authorized => (~last'.success /\ UNCHANGED db)
           /\ last'.success =>
                /\ authorized
                /\ ~invitations[last'.docId].exists
                /\ invitations'[last'.docId].exists
                /\ invitations'[last'.docId].status = "pending"
                /\ invitations'[last'.docId].companyId = last'.companyId
                /\ invitations'[last'.docId].role = last'.role
           /\ \A i \in InvitationIds :
                invitations'[i] # invitations[i] => (last'.success /\ i = last'.docId)
    ]_vars

\* an admin of the company has tried to invite an owner
C13_Witness ==
  /\ last.op = "sendInvitation" /\ ~last.success
  /\ last.tok \in UIDS
  /\ users[last.tok].companyId = last.companyId
  /\ users[last.tok].role = "admin"
  /\ last.role = "owner"

\* C14: every expense getExpenses returns was created by the caller, or has
\* the companyId of the caller's profile while the caller's role is owner,
\* admin or auditor; a caller with role user or with no company receives
\* only expenses they created.
C14_ReadScope ==
  [][ (last'.op = "getExpenses" /\ last'.success) =>
        LET uid == last'.tok
            userData == users[uid]
        IN \A e \in last'.result :
             /\ expenses[e].exists
             /\ \/ expenses[e].userId = uid
                \/ /\ userData.companyId # NullCompany
                   /\ expenses[e].companyId = userData.companyId
                   /\ userData.role \in {"owner", "admin", "auditor"}
             /\ (userData.role = "user" \/ userData.companyId = NullCompany)
                   => expenses[e].userId = uid ]_vars

\* an owner, admin or auditor has received an expense another user created
C14_Witness ==
  /\ last.op = "getExpenses" /\ last.success
  /\ \E e \in last.result : expenses[e].userId # last.tok

RECURSIVE SumPrices(_)
SumPrices(items) ==
  IF items = <<>> THEN 0 ELSE Head(items).netPrice.v + SumPrices(Tail(items))

\* C16: every saved expense has a quantity of at least 1 on each line item
\* and a totalAmount equal to the sum of its items' netPrice values, whatever
\* quantities and prices were submitted.
C16_ItemsNormalised ==
  \A e \in ExpenseIds :
    expenses[e].exists =>
      /\ \A i \in 1..Len(expenses[e].items) :
           /\ ~expenses[e].items[i].quantity.nan
           /\ expenses[e].items[i].quantity.v >= Scale
           /\ ~expenses[e].items[i].netPrice.nan
      /\ ~expenses[e].totalAmount.nan
      /\ expenses[e].totalAmount.v = SumPrices(expenses[e].items)

\* an expense was saved from two items, one with a quantity below 1 and one
\* with a non-numeric price
C16_Witness ==
  /\ last.op = "saveExpense" /\ last.success
  /\ Len(last.items) = 2
  /\ Len(expenses[last.docId].items) = 2
  /\ \E i \in 1..2 : ~Number(last.items[i].quantity).nan
                       /\ Number(last.items[i].quantity).v < Scale
  /\ \E i \in 1..2 : Number(last.items[i].netPrice).nan
  /\ expenses[last.docId].totalAmount.v # 0

\* C17: createCompany succeeds only for a caller whose profile has no
\* companyId; for a caller already in a company it fails, creates no company
\* and changes no profile; on success the new company has the caller as
\* ownerId and as its only member, and the caller's profile has the new
\* companyId and role owner.
C17_CreateCompany ==
  [][ last'.op = "createCompany" =>
        LET uid == last'.tok
            cid == last'.docId
        IN /\ last'.success =>
                /\ uid \in UIDS
                /\ users[uid].companyId = NullCompany
                /\ ~companies[cid].exists
                /\ companies'[cid] = [exists |-> TRUE, ownerId |-> uid, members |-> {uid}]
                /\ users'[uid] = [exists |-> TRUE, companyId |-> cid, role |-> "owner"]
                /\ \A c \in CIDS \ {cid} : companies'[c] = companies[c]
                /\ \A u \in UIDS \ {uid} : users'[u] = users[u]
           /\ (uid \in UIDS /\ users[uid].companyId # NullCompany) =>
                (~last'.success /\ UNCHANGED db)
           /\ ~last'.success => UNCHANGED db
           /\ UNCHANGED <<invitations, expenses>> ]_vars

\* a member of a company has called createCompany while a company id was
\* still free, and was refused
C17_Witness ==
  /\ last.op = "createCompany" /\ ~last.success
  /\ last.error = "already-in-company"
  /\ users[last.tok].companyId # NullCompany
  /\ \E c \in CIDS : ~companies[c].exists

\* C18: a server action called with a missing, empty, expired or otherwise
\* unverifiable ID token ends with a failure result, or an empty list for
\* the read actions, and writes nothing to users, companies, invitations or
\* expenses.
C18_UnverifiedToken ==
  [][ (last'.op # "none" /\ last'.tok \notin UIDS) =>
        /\ ~last'.success
        /\ last'.result = {}
        /\ last'.error \in {"no-token", "auth"}
        /\ UNCHANGED db ]_vars

\* deleteExpense on a stored expense was called with an expired token
C18_Witness ==
  /\ last.op = "deleteExpense"
  /\ last.tok = ExpiredToken
  /\ ~last.success
  /\ expenses[last.expenseId].exists

\* C19: validateCategory and validatePaymentMethod return a listed input
\* unchanged and 'other' for every other input, so the category and
\* paymentMethod processReceiptImage returns are in the allow-lists of five
\* categories and four payment methods, and coercing a second time changes
\* nothing.
C19_EnumCoercion ==
  (last.op = "processReceiptImage" /\ last.success) =>
    /\ Cardinality(expenseCategories) = 5
    /\ Cardinality(paymentMethods) = 4
    /\ last.category \in expenseCategories
    /\ last.paymentMethod \in paymentMethods
    /\ last.aiCategory \in expenseCategories => last.category = last.aiCategory
    /\ last.aiCategory \notin expenseCategories => last.category = "other"
    /\ last.aiPaymentMethod \in paymentMethods => last.paymentMethod = last.aiPaymentMethod
    /\ last.aiPaymentMethod \notin paymentMethods => last.paymentMethod = "other"
    /\ validateCategory(last.category) = last.category
    /\ validatePaymentMethod(last.paymentMethod) = last.paymentMethod

\* the extraction returned a payment method as category and a category in
\* another case as payment method; both came back as 'other'
C19_Witness ==
  /\ last.op = "processReceiptImage" /\ last.success
  /\ last.aiCategory = "cash" /\ last.category = "other"
  /\ last.aiPaymentMethod = "Food" /\ last.paymentMethod = "other"

\* the users whose profile names company c with role owner
OwnerProfiles(c) == {u \in UIDS : users[u].exists /\ users[u].companyId = c
                                    /\ users[u].role = "owner"}

\* C20: in every reachable state each company has exactly one owner: exactly
\* one user profile has the company's id as companyId together with role
\* owner, and that user is the company's ownerId.
C20_ExactlyOneOwner ==
  \A c \in CIDS :
    companies[c].exists => OwnerProfiles(c) = {companies[c].ownerId}

\* C20 on the path of the claim: after an accepted invitation with intended
\* role owner the company still has exactly one owner profile.
C20_OneOwnerAfterAccept ==
  [][ (/\ last'.op = "acceptInvitation" /\ last'.success
       /\ invitations[last'.invitationId].role = "owner"
       /\ C20_ExactlyOneOwner) => C20_ExactlyOneOwner' ]_vars

\* C21: an invitation is mutated at most once after its creation: once it
\* is marked accepted, no acceptInvitation request, whether it started
\* before or after that write, writes the invitation, the company or the
\* profile again.
C21_AcceptedOnce ==
  [][ \A s \in Slots :
        (/\ inflight[s].op = "acceptInvitation"
         /\ inflight'[s].op = "idle"
         /\ invitations[inflight[s].invitationId].status = "accepted") =>
           (~last'.wrote /\ UNCHANGED db) ]_vars

\* C22: an expense with no companyId has status 'approved' in every state a
\* call leaves behind, and updateExpenseStatus on an expense without a
\* companyId fails and leaves every document unchanged.
C22_PersonalApproved ==
  [][ /\ \A e \in ExpenseIds :
           (expenses'[e].exists /\ expenses'[e].companyId = NullCompany) =>
              expenses'[e].status = "approved"
      /\ (/\ last'.op = "updateExpenseStatus"
          /\ expenses[last'.expenseId].exists
          /\ expenses[last'.expenseId].companyId = NullCompany) =>
            (~last'.success /\ UNCHANGED db) ]_vars

\* a caller with role owner or admin and no company has tried to change the
\* status of a personal expense
C22_Witness ==
  /\ last.op = "updateExpenseStatus" /\ ~last.success
  /\ last.error = "not-company-expense"
  /\ last.status # "approved"
  /\ last.tok \in UIDS
  /\ users[last.tok].role \in {"owner", "admin"}
  /\ users[last.tok].companyId = NullCompany
  /\ expenses[last.expenseId].exists
  /\ expenses[last.expenseId].companyId = NullCompany
  /\ expenses[last.expenseId].status = "approved"

\* C23: every line item processReceiptImage returns has quantity 1 when the
\* extracted quantity is missing, zero or negative and the extracted value
\* otherwise, and netPrice 0 when the extracted net price is missing or not
\* numeric; no returned item has a quantity of 0 or less.
C23_ReceiptItemDefaults ==
  (last.op = "processReceiptImage" /\ last.success) =>
    /\ Len(last.items) = Len(last.aiItems)
    /\ \A i \in 1..Len(last.items) :
         LET q == Number(last.aiItems[i].quantity)
             p == Number(last.aiItems[i].netPrice)
         IN /\ (q.nan \/ q.v <= 0) => last.items[i].quantity = Num(Scale)
            /\ (~q.nan /\ q.v > 0) => last.items[i].quantity = q
            /\ p.nan => last.items[i].netPrice = Num(0)
            /\ ~last.items[i].quantity.nan
            /\ last.items[i].quantity.v > 0

\* C24: membership and profile agree in every reachable state: a user id is
\* in a company's members exactly when that user's profile companyId is the
\* company, so a user is a member of at most one company.
C24_MembersMatchProfiles ==
  \A c \in CIDS :
    companies[c].exists =>
      \A u \in UIDS :
        u \in companies[c].members <=> (users[u].exists /\ users[u].companyId = c)

\* C24 on the path of the claim: acceptInvitation by a user who belongs to a
\* company keeps membership and profiles in agreement.
C24_AgreeAfterAccept ==
  [][ (/\ last'.op = "acceptInvitation" /\ last'.success
       /\ C24_MembersMatchProfiles) => C24_MembersMatchProfiles' ]_vars

\* C25: removeUserFromCompany and updateUserRole called for company C leave
\* unchanged the profile of every user who is not a member of C, and never
\* make a non-member the ownerId of C.
C25_NonMembersUntouched ==
  [][ (last'.op \in {"removeUserFromCompany", "updateUserRole"}) =>
        LET c == last'.companyId IN
        /\ \A u \in UIDS : u \notin companies[c].members => users'[u] = users[u]
        /\ companies'[c].ownerId # companies[c].ownerId =>
              companies'[c].ownerId \in companies[c].members ]_vars

\* C26: leaveCompany(companyId) changes the caller's profile and a members
\* set only when the caller's profile companyId equals the argument; a
\* caller naming a company they do not belong to gets a failure and keeps
\* companyId and role.
C26_LeaveOwnCompanyOnly ==
  [][ (/\ last'.op = "leaveCompany"
       /\ last'.tok \in UIDS
       /\ users[last'.tok].companyId # last'.companyId) =>
         (~last'.success /\ UNCHANGED db) ]_vars

\* C27: a server action that returns success = false leaves every users,
\* companies, invitations and expenses document as it was before the call.
C27_FailureWritesNothing ==
  [][ (last'.op # "none" /\ ~last'.success) => UNCHANGED db ]_vars

\* C28: under any interleaving of createCompany calls by the same user, at
\* most one company has that user as ownerId after a createCompany call, and
\* the user's profile companyId names that company.
C28_OneCompanyPerCreator ==
  [][ (last'.op = "createCompany" /\ last'.success) =>
        /\ {c \in CIDS : companies'[c].exists /\ companies'[c].ownerId = last'.tok}
              = {last'.docId}
        /\ users'[last'.tok].companyId = last'.docId ]_vars

\* C29: every expense written by saveExpense has the uid of the verified
\* token as userId and the caller's stored profile companyId as companyId,
\* null when the profile has none or does not exist; the companyId of the
\* form is never stored.
C29_SaveScope ==
  [][ (last'.op = "saveExpense" /\ last'.success) =>
        LET uid == last'.tok
            e == last'.docId
        IN /\ uid \in UIDS
           /\ ~expenses[e].exists
           /\ expenses'[e].exists
           /\ expenses'[e].userId = uid
           /\ expenses'[e].companyId =
                 (IF users[uid].exists THEN users[uid].companyId ELSE NullCompany)
           /\ \A x \in ExpenseIds \ {e} : expenses'[x] = expenses[x]
           /\ UNCHANGED <<users, companies, invitations>> ]_vars

\* a member of a company has saved an expense with a form that names another
\* company
C29_Witness ==
  /\ last.op = "saveExpense" /\ last.success
  /\ last.dataCompanyId # NullCompany
  /\ users[last.tok].companyId # NullCompany
  /\ last.dataCompanyId # users[last.tok].companyId
  /\ expenses[last.docId].companyId = users[last.tok].companyId

\* C30: canDeleteExpense agrees with the authorization of deleteExpense for
\* every user with a profile and every stored expense: the Delete control is
\* offered exactly when deleteExpense would succeed.
C30_DeleteControlAgrees ==
  \A u \in UIDS, e \in ExpenseIds :
    (users[u].exists /\ expenses[e].exists) =>
      (canDeleteExpense(u, users[u], expenses[e])
         <=> DeleteAuthorized(u, expenses[e], users[u]))

====
